---- MODULE Spec2Model ----
(***************************************************************************)
(* The cart store of the storefront (CartProvider, src/src/components/     *)
(* Header.tsx lines 240-428) as a state machine: the React state of the    *)
(* provider (items, activePromoCode, isCartAnimating), the localStorage    *)
(* entry 'elloria_cart', the pending [items] effect, the pending 500 ms    *)
(* timers and the wall clock.                                              *)
(* Around it, the shop page (src/src/pages/Shop.tsx) that mounts the       *)
(* provider and filters and sorts the catalog.                             *)
(*                                                                         *)
(* Units.  Prices are whole cents (6.99 is 699).  The clock and the        *)
(* expiryDate count whole days, so setDate(getDate() + 7) is now + 7.      *)
(* total is kept in hundredths of a cent (see TotalScale) so that          *)
(* subtotal * (1 - discount / 100) stays exact.                            *)
(***************************************************************************)
EXTENDS Integers, Sequences, FiniteSets, TLC

VARIABLES
    items,            \* useState<CartItem[]>            (Header.tsx 285)
    activePromoCode,  \* useState<PromoCode | null>: <<>> is null, <<p>> is p
    isCartAnimating,  \* useState(false)                 (Header.tsx 303)
    timers,           \* pending setTimeout callbacks of addItem
    storage,          \* localStorage[CART_STORAGE_KEY]: <<>> is absent
    effect,           \* "none", or the commit whose [items] effect is still
                      \* to run: "mount" or the handler that called setItems
    crashed,          \* rendering threw: the provider never mounted
    now,              \* new Date().getTime(), in days
    requested,        \* per id: sum of the quantities requested by addItem
                      \* since the id was last absent; -1 when something
                      \* else than such addItem calls shaped the line item
    products,         \* the catalog the shop page lists   (Shop.tsx 7)
    sortBy,           \* useState<SortOption>("featured")  (Shop.tsx 14)
    filterBy          \* useState<FilterOption>("all")     (Shop.tsx 15)

\* the state of the shop page
shopVars == <<products, sortBy, filterBy>>

\* the state of the cart store and its surroundings
cartVars == <<items, activePromoCode, isCartAnimating, timers, storage,
              effect, crashed, now, requested>>

vars == <<cartVars, shopVars>>

----------------------------------------------------------------------------
(* Bounds of the model *)

MaxTime == 1       \* the clock stops ticking here
MaxTimers == 2     \* addItem is held back while this many timers are pending
MaxDeficit == 98   \* addItem is held back below quantity -MaxDeficit
MaxRequested == 300 \* the tally of requested quantities is dropped above this

(* Program constants *)

MaxQuantity == 99
MinQuantity == 1
CART_EXPIRY_DAYS == 7
TotalScale == 100

----------------------------------------------------------------------------
(* JavaScript numbers, undefined and null, as far as the store uses them *)

Num(n) == [k |-> "num", v |-> n]
NaN == [k |-> "nan", v |-> 0]
Infinity == [k |-> "inf", v |-> 1]
NegInfinity == [k |-> "inf", v |-> -1]
Undefined == [k |-> "undefined", v |-> 0]
Null == [k |-> "null", v |-> 0]

Sign(n) == IF n > 0 THEN 1 ELSE IF n < 0 THEN -1 ELSE 0

\* ToNumber: undefined is NaN, null is 0
ToNumber(x) ==
    IF x.k = "undefined" THEN NaN
    ELSE IF x.k = "null" THEN Num(0)
    ELSE x

\* the global isNaN(x)
isNaN(x) == ToNumber(x).k = "nan"

\* !x for a number, undefined or null
Falsy(x) ==
    \/ x.k \in {"undefined", "null", "nan"}
    \/ x.k = "num" /\ x.v = 0

\* a * b
Mul(a, b) ==
    LET x == ToNumber(a)
        y == ToNumber(b)
    IN  IF x.k = "nan" \/ y.k = "nan" THEN NaN
        ELSE IF x.k = "num" /\ y.k = "num" THEN Num(x.v * y.v)
        ELSE IF Sign(x.v) * Sign(y.v) = 0 THEN NaN
        ELSE [k |-> "inf", v |-> Sign(x.v) * Sign(y.v)]

\* a + b
Add(a, b) ==
    LET x == ToNumber(a)
        y == ToNumber(b)
    IN  IF x.k = "nan" \/ y.k = "nan" THEN NaN
        ELSE IF x.k = "num" /\ y.k = "num" THEN Num(x.v + y.v)
        ELSE IF x.k = "inf" /\ y.k = "inf"
             THEN (IF x.v = y.v THEN x ELSE NaN)
        ELSE IF x.k = "inf" THEN x ELSE y

\* a < b
LessThan(a, b) ==
    LET x == ToNumber(a)
        y == ToNumber(b)
    IN  IF x.k = "nan" \/ y.k = "nan" THEN FALSE
        ELSE IF x.k = "num" /\ y.k = "num" THEN x.v < y.v
        ELSE IF x.k = "inf" /\ y.k = "inf" THEN x.v < y.v
        ELSE IF x.k = "inf" THEN x.v < 0 ELSE y.v > 0

\* Math.min(a, b) on integers
Min(a, b) == IF a < b THEN a ELSE b

----------------------------------------------------------------------------
(* Strings that are compared case-insensitively are sequences of characters *)

UpperChars == <<"A", "B", "C", "D", "E", "F", "G", "H", "I", "J", "K", "L", "M",
                "N", "O", "P", "Q", "R", "S", "T", "U", "V", "W", "X", "Y", "Z">>
LowerChars == <<"a", "b", "c", "d", "e", "f", "g", "h", "i", "j", "k", "l", "m",
                "n", "o", "p", "q", "r", "s", "t", "u", "v", "w", "x", "y", "z">>

toLowerCaseChar(c) ==
    IF \E i \in DOMAIN UpperChars : UpperChars[i] = c
    THEN LowerChars[CHOOSE i \in DOMAIN UpperChars : UpperChars[i] = c]
    ELSE c

\* String.prototype.toLowerCase
toLowerCase(s) == [i \in DOMAIN s |-> toLowerCaseChar(s[i])]

WELCOME10 == <<"W", "E", "L", "C", "O", "M", "E", "1", "0">>
SAVE20 == <<"S", "A", "V", "E", "2", "0">>
WELCOME20 == <<"W", "E", "L", "C", "O", "M", "E", "2", "0">>

VALID_PROMO_CODES ==
    << [code |-> WELCOME10, discount |-> 10],
       [code |-> SAVE20, discount |-> 20] >>

----------------------------------------------------------------------------
(* The shop page (src/src/pages/Shop.tsx) and its catalog (the products of
   ProductCarousel).  Texts are sequences of characters; a product keeps the
   fields the page reads: id, price in cents, features and
   specifications.features. *)

\* Ultra-Thin 290mm, 6.99
UltraThin290mm ==
    [id |-> 1,
     price |-> 699,
     features |-> <<
        \* "Ultra-thin design for maximum comfort"
        <<"U", "l", "t", "r", "a", "-", "t", "h", "i", "n", " ", "d",
            "e", "s", "i", "g", "n", " ", "f", "o", "r", " ", "m",
            "a", "x", "i", "m", "u", "m", " ", "c", "o", "m", "f",
            "o", "r", "t">>,
        \* "Suitable for light to medium flow"
        <<"S", "u", "i", "t", "a", "b", "l", "e", " ", "f", "o", "r",
            " ", "l", "i", "g", "h", "t", " ", "t", "o", " ", "m",
            "e", "d", "i", "u", "m", " ", "f", "l", "o", "w">>,
        \* "Breathable cotton-like cover"
        <<"B", "r", "e", "a", "t", "h", "a", "b", "l", "e", " ", "c",
            "o", "t", "t", "o", "n", "-", "l", "i", "k", "e", " ",
            "c", "o", "v", "e", "r">>,
        \* "Up to 8 hours of protection"
        <<"U", "p", " ", "t", "o", " ", "8", " ", "h", "o", "u", "r",
            "s", " ", "o", "f", " ", "p", "r", "o", "t", "e", "c",
            "t", "i", "o", "n">>,
        \* "Dermatologically tested"
        <<"D", "e", "r", "m", "a", "t", "o", "l", "o", "g", "i", "c",
            "a", "l", "l", "y", " ", "t", "e", "s", "t", "e", "d">>>>,
     specifications |-> [features |->
        \* "Wings, Breathable, Hypoallergenic"
        <<"W", "i", "n", "g", "s", ",", " ", "B", "r", "e", "a", "t",
            "h", "a", "b", "l", "e", ",", " ", "H", "y", "p", "o",
            "a", "l", "l", "e", "r", "g", "e", "n", "i", "c">>]]

\* Maxi Pads 350mm, 7.99
MaxiPads350mm ==
    [id |-> 2,
     price |-> 799,
     features |-> <<
        \* "Enhanced absorption technology"
        <<"E", "n", "h", "a", "n", "c", "e", "d", " ", "a", "b", "s",
            "o", "r", "p", "t", "i", "o", "n", " ", "t", "e", "c",
            "h", "n", "o", "l", "o", "g", "y">>,
        \* "Ideal for medium to heavy flow"
        <<"I", "d", "e", "a", "l", " ", "f", "o", "r", " ", "m", "e",
            "d", "i", "u", "m", " ", "t", "o", " ", "h", "e", "a",
            "v", "y", " ", "f", "l", "o", "w">>,
        \* "Extra-long for overnight protection"
        <<"E", "x", "t", "r", "a", "-", "l", "o", "n", "g", " ", "f",
            "o", "r", " ", "o", "v", "e", "r", "n", "i", "g", "h",
            "t", " ", "p", "r", "o", "t", "e", "c", "t", "i", "o",
            "n">>,
        \* "Soft cotton-like surface"
        <<"S", "o", "f", "t", " ", "c", "o", "t", "t", "o", "n", "-",
            "l", "i", "k", "e", " ", "s", "u", "r", "f", "a", "c",
            "e">>,
        \* "Leak guard barriers"
        <<"L", "e", "a", "k", " ", "g", "u", "a", "r", "d", " ", "b",
            "a", "r", "r", "i", "e", "r", "s">>>>,
     specifications |-> [features |->
        \* "Wings, Extra Coverage, Leak Guards"
        <<"W", "i", "n", "g", "s", ",", " ", "E", "x", "t", "r", "a",
            " ", "C", "o", "v", "e", "r", "a", "g", "e", ",", " ",
            "L", "e", "a", "k", " ", "G", "u", "a", "r", "d", "s">>]]

\* Overnight 425mm, 8.99
Overnight425mm ==
    [id |-> 3,
     price |-> 899,
     features |-> <<
        \* "Maximum overnight protection"
        <<"M", "a", "x", "i", "m", "u", "m", " ", "o", "v", "e", "r",
            "n", "i", "g", "h", "t", " ", "p", "r", "o", "t", "e",
            "c", "t", "i", "o", "n">>,
        \* "Up to 600ml absorption capacity"
        <<"U", "p", " ", "t", "o", " ", "6", "0", "0", "m", "l", " ",
            "a", "b", "s", "o", "r", "p", "t", "i", "o", "n", " ",
            "c", "a", "p", "a", "c", "i", "t", "y">>,
        \* "Extra-wide back for sleeping"
        <<"E", "x", "t", "r", "a", "-", "w", "i", "d", "e", " ", "b",
            "a", "c", "k", " ", "f", "o", "r", " ", "s", "l", "e",
            "e", "p", "i", "n", "g">>,
        \* "Soft and quiet material"
        <<"S", "o", "f", "t", " ", "a", "n", "d", " ", "q", "u", "i",
            "e", "t", " ", "m", "a", "t", "e", "r", "i", "a", "l">>,
        \* "12-hour protection"
        <<"1", "2", "-", "h", "o", "u", "r", " ", "p", "r", "o", "t",
            "e", "c", "t", "i", "o", "n">>>>,
     specifications |-> [features |->
        \* "Wings, Extra Wide Back, Maximum Coverage"
        <<"W", "i", "n", "g", "s", ",", " ", "E", "x", "t", "r", "a",
            " ", "W", "i", "d", "e", " ", "B", "a", "c", "k", ",",
            " ", "M", "a", "x", "i", "m", "u", "m", " ", "C", "o",
            "v", "e", "r", "a", "g", "e">>]]

\* export const products = [...]
PRODUCTS == <<UltraThin290mm, MaxiPads350mm, Overnight425mm>>

\* type SortOption
SortOptions == {"featured", "price-low", "price-high", "newest"}

\* type FilterOption, each tag as the text includes() searches for
ALL == <<"a", "l", "l">>
ULTRA_THIN == <<"u", "l", "t", "r", "a", "-", "t", "h", "i", "n">>
MAXI == <<"m", "a", "x", "i">>
OVERNIGHT == <<"o", "v", "e", "r", "n", "i", "g", "h", "t">>
FilterOptions == {ALL, ULTRA_THIN, MAXI, OVERNIGHT}

\* String.prototype.includes
includes(s, searchString) ==
    \E i \in 0..(Len(s) - Len(searchString)) :
        SubSeq(s, i + 1, i + Len(searchString)) = searchString

\* the predicate of products.filter
filterPredicate(product, tag) ==
    IF tag = ALL THEN TRUE
    ELSE \/ \E i \in DOMAIN product.features :
                includes(toLowerCase(product.features[i]), tag)
         \/ includes(toLowerCase(product.specifications.features), tag)

\* products.filter(...)
filteredProductsOf(catalog, tag) ==
    LET Keep(product) == filterPredicate(product, tag)
    IN  SelectSeq(catalog, Keep)

\* new Date(value).getTime() of a number of milliseconds: that number
DateGetTime(value) == value

\* a comparator that puts the smaller id first for "newest"
compareOldestFirst(option, a, b) ==
    CASE option = "price-low" -> a.price - b.price
      [] option = "price-high" -> b.price - a.price
      [] option = "newest" -> DateGetTime(a.id) - DateGetTime(b.id)
      [] OTHER -> 0

\* the comparator of sort
compare(option, a, b) ==
    CASE option = "price-low" -> a.price - b.price
      [] option = "price-high" -> b.price - a.price
      [] option = "newest" -> DateGetTime(b.id) - DateGetTime(a.id)
      [] OTHER -> 0

\* one step of a stable sort: x goes before the first element that the
\* comparator puts after it
RECURSIVE insertStable(_, _, _)
insertStable(sorted, x, option) ==
    IF sorted = <<>> THEN <<x>>
    ELSE IF compare(option, Head(sorted), x) > 0
         THEN <<x>> \o sorted
         ELSE <<Head(sorted)>> \o insertStable(Tail(sorted), x, option)

\* Array.prototype.sort with the comparator, on a copy: stable
RECURSIVE sortCopy(_, _, _)
sortCopy(sorted, rest, option) ==
    IF rest = <<>> THEN sorted
    ELSE sortCopy(insertStable(sorted, Head(rest), option), Tail(rest), option)

\* [...filteredProducts].sort(...)
sortedProductsOf(catalog, tag, option) ==
    sortCopy(<<>>, filteredProductsOf(catalog, tag), option)

\* the catalogs the page is checked with: every arrangement of distinct
\* products of the catalog
Catalogs ==
    {c \in UNION {[1..n -> {PRODUCTS[i] : i \in DOMAIN PRODUCTS}] :
                      n \in 0..Len(PRODUCTS)} :
        \A i, j \in DOMAIN c : i # j => c[i] # c[j]}

----------------------------------------------------------------------------
(* Cart items *)

CartItem(id, price, quantity) == [id |-> id, price |-> price, quantity |-> quantity]

HasId(its, id) == \E i \in DOMAIN its : its[i].id = id

\* an updater that puts a new line item first: [newItem, ...currentItems]
addItemUpdaterPrepends(currentItems, newItem) ==
    IF HasId(currentItems, newItem.id)
    THEN [i \in DOMAIN currentItems |->
            IF currentItems[i].id = newItem.id
            THEN [currentItems[i] EXCEPT
                    !.quantity = Min(MaxQuantity, @ + newItem.quantity)]
            ELSE currentItems[i]]
    ELSE <<[newItem EXCEPT !.quantity = Min(MaxQuantity, newItem.quantity)]>>
            \o currentItems

\* the updater addItem hands to setItems
addItemUpdater(currentItems, newItem) ==
    IF HasId(currentItems, newItem.id)
    THEN [i \in DOMAIN currentItems |->
            IF currentItems[i].id = newItem.id
            THEN [currentItems[i] EXCEPT
                    !.quantity = Min(MaxQuantity, @ + newItem.quantity)]
            ELSE currentItems[i]]
    ELSE Append(currentItems,
                [newItem EXCEPT !.quantity = Min(MaxQuantity, newItem.quantity)])

\* the guard of addItem: the price is rejected
addItemRejects(newItem) == Falsy(newItem.price) \/ isNaN(newItem.price)

\* updateQuantity with the lower bound off by one
updateQuantityRejectsBelowZero(quantity) == quantity < 0 \/ quantity > MaxQuantity

\* the guard of updateQuantity: the quantity is rejected
updateQuantityRejects(quantity) == quantity < MinQuantity \/ quantity > MaxQuantity

\* the updater updateQuantity hands to setItems
updateQuantityUpdater(currentItems, id, quantity) ==
    [i \in DOMAIN currentItems |->
        IF currentItems[i].id = id
        THEN [currentItems[i] EXCEPT !.quantity = quantity]
        ELSE currentItems[i]]

\* a filter with the comparison inverted: item => item.id === id
removeItemUpdaterKeepsMatching(currentItems, id) ==
    LET Matches(item) == item.id = id
    IN  SelectSeq(currentItems, Matches)

\* Array.prototype.filter(item => item.id !== id)
RECURSIVE removeItemUpdater(_, _)
removeItemUpdater(currentItems, id) ==
    IF currentItems = <<>> THEN <<>>
    ELSE IF Head(currentItems).id # id
         THEN <<Head(currentItems)>> \o removeItemUpdater(Tail(currentItems), id)
         ELSE removeItemUpdater(Tail(currentItems), id)

----------------------------------------------------------------------------
(* Derived reads *)

\* items.reduce((sum, item) => ..., 0) of subtotal, from the left
RECURSIVE subtotalReduce(_, _)
subtotalReduce(sum, its) ==
    IF its = <<>> THEN sum
    ELSE LET itemTotal == Mul(Head(its).price, Num(Head(its).quantity))
         IN  subtotalReduce(IF isNaN(itemTotal) THEN sum ELSE Add(sum, itemTotal),
                            Tail(its))

subtotalOf(its) == subtotalReduce(Num(0), its)

\* total as the discount itself, subtotal * discount / 100
totalOfDiscountAmount(its, promo) ==
    IF promo # <<>>
    THEN Mul(subtotalOf(its), Num(promo[1].discount))
    ELSE Mul(subtotalOf(its), Num(TotalScale))

\* subtotal * (1 - discount / 100), in units of 1 / TotalScale
totalOf(its, promo) ==
    IF promo # <<>>
    THEN Mul(subtotalOf(its), Num(TotalScale - promo[1].discount))
    ELSE Mul(subtotalOf(its), Num(TotalScale))

RECURSIVE totalItemsReduce(_, _)
totalItemsReduce(sum, its) ==
    IF its = <<>> THEN sum
    ELSE totalItemsReduce(sum + Head(its).quantity, Tail(its))

totalItemsOf(its) == totalItemsReduce(0, its)

subtotal == subtotalOf(items)
total == totalOf(items, activePromoCode)
totalItems == totalItemsOf(items)

----------------------------------------------------------------------------
(* The persisted entry.  A stored text is unparseable, the JSON text null,
   or a JSON object with an optional items list and an optional expiryDate. *)

Unparseable ==
    [kind |-> "text", hasItems |-> FALSE, items |-> <<>>, expiryDate |-> Undefined]
JsonNull ==
    [kind |-> "null", hasItems |-> FALSE, items |-> <<>>, expiryDate |-> Undefined]
JsonObject(hasItems, its, expiryDate) ==
    [kind |-> "object", hasItems |-> hasItems, items |-> its, expiryDate |-> expiryDate]

\* JSON.stringify of a number-valued property: NaN and the infinities are
\* written as null, an undefined property is left out
JSONstringifyNumber(x) == IF x.k \in {"nan", "inf"} THEN Null ELSE x

JSONstringifyItem(item) == [item EXCEPT !.price = JSONstringifyNumber(@)]

\* JSON.stringify({ items, expiryDate })
JSONstringify(its, expiryDate) ==
    JsonObject(TRUE,
               [i \in DOMAIN its |-> JSONstringifyItem(its[i])],
               JSONstringifyNumber(expiryDate))

\* JSON.parse: throws on a text that is no JSON
JSONparse(text) == [threw |-> text.kind = "text", value |-> text]

\* the expiry test with <= for <
notExpiredInclusive(time, expiryDate) ==
    LessThan(Num(time), expiryDate) \/ Num(time) = ToNumber(expiryDate)

\* new Date().getTime() < expiryDate
notExpired(time, expiryDate) == LessThan(Num(time), expiryDate)

\* the initializer of the items state; isArray is FALSE when it returns the
\* missing items property of the parsed object
itemsInitializer(savedCart, time) ==
    LET empty == [isArray |-> TRUE, value |-> <<>>]
    IN  IF savedCart = <<>> THEN empty
        ELSE LET parsed == JSONparse(savedCart[1])
             IN  IF parsed.threw \/ parsed.value.kind = "null" THEN empty
                 ELSE IF notExpired(time, parsed.value.expiryDate)
                      THEN [isArray |-> parsed.value.hasItems,
                            value |-> parsed.value.items]
                      ELSE empty

\* the [items] effect: expiryDate.setDate(getDate() + CART_EXPIRY_DAYS), setItem
persistedEnvelope(its, time) == JSONstringify(its, Num(time + CART_EXPIRY_DAYS))

----------------------------------------------------------------------------
(* Inputs *)

Ids == {"1", "2"}
AddQuantities == {-98, 0, 98, 196}
UpdateQuantities == {0, 1, 99, 100}
AddInputs ==
    {CartItem("1", p, q) :
        p \in {Undefined, NaN, Infinity, Num(0), Num(10000)}, q \in AddQuantities}
    \cup {CartItem("2", p, q) :
        p \in {Num(-100), Num(0), Num(10000)}, q \in AddQuantities}
PromoInputs ==
    { WELCOME10, <<"w", "e", "l", "c", "o", "m", "e", "1", "0">>, SAVE20,
      <<"S", "a", "v", "e", "2", "0">>, WELCOME20, <<"X">> }

InitialTimes == 0 .. 1
StoredExpiries == {Num(0), Num(1), Num(2)}
StoredCarts ==
    { <<>>,
      <<CartItem("1", Num(10000), 1)>>,
      <<CartItem("2", Num(10000), 98), CartItem("1", Num(10000), 1)>> }
InitialStorage ==
    {<<>>, <<Unparseable>>, <<JsonNull>>}
    \cup {<<JsonObject(FALSE, <<>>, e)>> : e \in StoredExpiries \cup {Undefined}}
    \cup {<<JsonObject(TRUE, c, e)>> : c \in StoredCarts, e \in StoredExpiries}

----------------------------------------------------------------------------
(* The tally of requested quantities *)

\* the price is a present, finite, non-negative number
ValidPrice(p) == p.k = "num" /\ p.v >= 0

requestedAfterAdd(newItem, itemsAfter) ==
    [requested EXCEPT ![newItem.id] =
        IF @ >= 0 /\ ValidPrice(newItem.price) /\ newItem.quantity >= 1
        THEN (IF @ + newItem.quantity <= MaxRequested
              THEN @ + newItem.quantity ELSE -1)
        ELSE IF @ = 0 /\ ~HasId(itemsAfter, newItem.id) THEN 0 ELSE -1]

----------------------------------------------------------------------------
(* Initial states: the provider has rendered for the first time *)

CartInit ==
    \E s \in InitialStorage, t \in InitialTimes :
        LET r == itemsInitializer(s, t)
        IN  /\ items = r.value
            /\ crashed = ~r.isArray
            /\ effect = IF r.isArray THEN "mount" ELSE "none"
            /\ storage = s
            /\ now = t
            /\ activePromoCode = <<>>
            /\ isCartAnimating = FALSE
            /\ timers = 0
            /\ requested = [id \in Ids |-> IF HasId(r.value, id) THEN -1 ELSE 0]

\* the shop page as it mounts, over the catalog the repository ships
Init ==
    /\ CartInit
    /\ products = PRODUCTS
    /\ sortBy = "featured"
    /\ filterBy = ALL

\* a handler can run: the provider is mounted and its effects have run
Ready == ~crashed /\ effect = "none"

----------------------------------------------------------------------------
(* Actions *)

\* useEffect(..., [items]): runs after every commit that changed items
PersistEffect ==
    /\ ~crashed
    /\ effect # "none"
    /\ storage' = <<persistedEnvelope(items, now)>>
    /\ effect' = "none"
    /\ UNCHANGED <<items, activePromoCode, isCartAnimating, timers, crashed,
                   now, requested>>
    /\ UNCHANGED shopVars

AddItem(newItem) ==
    /\ Ready
    /\ IF addItemRejects(newItem)
       THEN /\ requested' = requestedAfterAdd(newItem, items)
            /\ UNCHANGED <<items, activePromoCode, isCartAnimating, timers,
                           storage, effect, crashed, now>>
       ELSE /\ timers < MaxTimers
            /\ items' = addItemUpdater(items, newItem)
            /\ \A i \in DOMAIN items' : items'[i].quantity >= -MaxDeficit
            /\ isCartAnimating' = TRUE
            /\ timers' = timers + 1
            /\ effect' = "addItem"
            /\ requested' = requestedAfterAdd(newItem, items')
            /\ UNCHANGED <<activePromoCode, storage, crashed, now>>
    /\ UNCHANGED shopVars

\* a timer callback that leaves the flag as it is
ResetAnimationKeepsFlag ==
    /\ Ready
    /\ timers > 0
    /\ timers' = timers - 1
    /\ UNCHANGED <<items, activePromoCode, isCartAnimating, storage, effect,
                   crashed, now, requested>>
    /\ UNCHANGED shopVars

\* the callback of setTimeout(() => setIsCartAnimating(false), 500)
ResetAnimation ==
    /\ Ready
    /\ timers > 0
    /\ isCartAnimating' = FALSE
    /\ timers' = timers - 1
    /\ UNCHANGED <<items, activePromoCode, storage, effect, crashed, now, requested>>
    /\ UNCHANGED shopVars

UpdateQuantity(id, quantity) ==
    /\ Ready
    /\ IF updateQuantityRejects(quantity)
       THEN UNCHANGED cartVars
       ELSE /\ items' = updateQuantityUpdater(items, id, quantity)
            /\ effect' = "updateQuantity"
            /\ requested' = [requested EXCEPT
                                ![id] = IF HasId(items, id) THEN -1 ELSE @]
            /\ UNCHANGED <<activePromoCode, isCartAnimating, timers, storage,
                           crashed, now>>
    /\ UNCHANGED shopVars

RemoveItem(id) ==
    /\ Ready
    /\ items' = removeItemUpdater(items, id)
    /\ effect' = "removeItem"
    /\ requested' = [requested EXCEPT ![id] = 0]
    /\ UNCHANGED <<activePromoCode, isCartAnimating, timers, storage, crashed, now>>
    /\ UNCHANGED shopVars

ClearCart ==
    /\ Ready
    /\ items' = <<>>
    /\ activePromoCode' = <<>>
    /\ storage' = <<>>
    /\ effect' = "clearCart"
    /\ requested' = [id \in Ids |-> 0]
    /\ UNCHANGED <<isCartAnimating, timers, crashed, now>>
    /\ UNCHANGED shopVars

\* the lookup comparing the codes as they are typed
findPromoCodeCaseSensitive(code) ==
    LET hits == {i \in DOMAIN VALID_PROMO_CODES : VALID_PROMO_CODES[i].code = code}
    IN  IF hits = {} THEN <<>>
        ELSE <<VALID_PROMO_CODES[CHOOSE i \in hits : \A j \in hits : i <= j]>>

\* VALID_PROMO_CODES.find(promo => promo.code.toLowerCase() === code.toLowerCase())
findPromoCode(code) ==
    LET hits == {i \in DOMAIN VALID_PROMO_CODES :
                    toLowerCase(VALID_PROMO_CODES[i].code) = toLowerCase(code)}
    IN  IF hits = {} THEN <<>>
        ELSE <<VALID_PROMO_CODES[CHOOSE i \in hits : \A j \in hits : i <= j]>>

\* an applyPromoCode that drops the active code when the typed one is unknown
applyPromoCodeResultDropsOnInvalid(code, active) ==
    LET promoCode == findPromoCode(code)
    IN  IF promoCode # <<>> THEN promoCode ELSE <<>>

\* the promo code that is active after applyPromoCode(code):
\* if (promoCode) setActivePromoCode(promoCode), else only toast.error
applyPromoCodeResult(code, active) ==
    LET promoCode == findPromoCode(code)
    IN  IF promoCode # <<>> THEN promoCode ELSE active

ApplyPromoCode(code) ==
    /\ Ready
    /\ activePromoCode' = applyPromoCodeResult(code, activePromoCode)
    /\ UNCHANGED <<items, isCartAnimating, timers, storage, effect, crashed,
                   now, requested>>
    /\ UNCHANGED shopVars

RemovePromoCode ==
    /\ Ready
    /\ activePromoCode' = <<>>
    /\ UNCHANGED <<items, isCartAnimating, timers, storage, effect, crashed,
                   now, requested>>
    /\ UNCHANGED shopVars

\* a day passes
Tick ==
    /\ Ready
    /\ now < MaxTime
    /\ now' = now + 1
    /\ UNCHANGED <<items, activePromoCode, isCartAnimating, timers, storage,
                   effect, crashed, requested>>
    /\ UNCHANGED shopVars

Next ==
    \/ PersistEffect
    \/ \E newItem \in AddInputs : AddItem(newItem)
    \/ ResetAnimation
    \/ \E id \in Ids, quantity \in UpdateQuantities : UpdateQuantity(id, quantity)
    \/ \E id \in Ids : RemoveItem(id)
    \/ ClearCart
    \/ \E code \in PromoInputs : ApplyPromoCode(code)
    \/ RemovePromoCode
    \/ Tick

Spec == Init /\ [][Next]_vars

\* the store is created with no persisted entry: the cart starts empty
InitEmpty == Init /\ storage = <<>>

EmptyStart == InitEmpty /\ [][Next]_vars

\* the event loop runs a timer callback that is due and React runs a pending
\* effect: neither waits forever
\* the calls that the animation interleaves with: addItem and its timers,
\* the effect that follows a commit, and the promo code and removal calls
\* whose state the timers must leave alone
AnimationNext ==
    \/ PersistEffect
    \/ \E newItem \in AddInputs : AddItem(newItem)
    \/ ResetAnimation
    \/ \E id \in Ids : RemoveItem(id)
    \/ \E code \in PromoInputs : ApplyPromoCode(code)
    \/ RemovePromoCode

\* the event loop runs a timer callback that is due and React runs a pending
\* effect: neither waits forever
FairSpec ==
    /\ InitEmpty
    /\ [][AnimationNext]_vars
    /\ SF_vars(ResetAnimation)
    /\ WF_vars(PersistEffect)

\* onSortChange={setSortBy}
SetSortBy(option) ==
    /\ sortBy' = option
    /\ UNCHANGED <<products, filterBy, cartVars>>

\* onFilterChange={setFilterBy}
SetFilterBy(tag) ==
    /\ filterBy' = tag
    /\ UNCHANGED <<products, sortBy, cartVars>>

\* what the page hands to ProductGrid
filteredProducts == filteredProductsOf(products, filterBy)
sortedProducts == sortedProductsOf(products, filterBy, sortBy)

\* the shop page over any catalog, with an empty cart that is left alone
ShopInit ==
    /\ CartInit
    /\ storage = <<>>
    /\ now = 0
    /\ products \in Catalogs
    /\ sortBy = "featured"
    /\ filterBy = ALL

ShopNext ==
    \/ \E option \in SortOptions : SetSortBy(option)
    \/ \E tag \in FilterOptions : SetFilterBy(tag)

ShopSpec == ShopInit /\ [][ShopNext]_vars

----------------------------------------------------------------------------
(* Helpers of the properties *)

ItemsWithId(its, id) == {i \in DOMAIN its : its[i].id = id}

\* a stored text that is an envelope { items: [...], expiryDate: <number> }
WellFormedEnvelope(text) ==
    /\ text.kind = "object"
    /\ text.hasItems
    /\ text.expiryDate.k = "num"

\* the sum of price * quantity over all of its
RECURSIVE SumOfProducts(_)
SumOfProducts(its) ==
    IF its = <<>> THEN Num(0)
    ELSE Add(SumOfProducts(SubSeq(its, 1, Len(its) - 1)),
             Mul(its[Len(its)].price, Num(its[Len(its)].quantity)))

\* the same sum with every product that is NaN left out
RECURSIVE SumOfNumberProducts(_)
SumOfNumberProducts(its) ==
    IF its = <<>> THEN Num(0)
    ELSE LET rest == SumOfNumberProducts(SubSeq(its, 1, Len(its) - 1))
             product == Mul(its[Len(its)].price, Num(its[Len(its)].quantity))
         IN  IF product.k = "nan" THEN rest ELSE Add(rest, product)

\* every price in its is a finite number
FinitePrices(its) == \A i \in DOMAIN its : its[i].price.k = "num"

RECURSIVE SumOfQuantities(_)
SumOfQuantities(its) ==
    IF its = <<>> THEN 0
    ELSE SumOfQuantities(SubSeq(its, 1, Len(its) - 1)) + its[Len(its)].quantity

----------------------------------------------------------------------------
(* Properties *)

\* C1: from a cart without a line item for an id, after addItem calls for that
\* id that all carry a valid (present, finite, non-negative) price and a
\* quantity of at least 1, the cart holds exactly one line item for the id and
\* its quantity is min(99, sum of the requested quantities), at every step.
AddItemAccumulates ==
    \A id \in Ids :
        requested[id] > 0 =>
            /\ Cardinality(ItemsWithId(items, id)) = 1
            /\ \A i \in ItemsWithId(items, id) :
                  items[i].quantity = Min(99, requested[id])

\* C2: from an empty cart, every line item has a quantity in 1..99.
QuantityInRange ==
    \A i \in DOMAIN items : items[i].quantity \in 1 .. 99

\* C3: updateQuantity(id, q) with q outside 1..99 changes neither the items,
\* nor the promo code, nor the persisted entry (and schedules no write of it);
\* with q in 1..99 it sets the quantity of the line item with that id to q and
\* keeps every other line item, the order and the promo code.
UpdateQuantityExact ==
    [][\A id \in Ids, q \in UpdateQuantities :
          UpdateQuantity(id, q) =>
              IF q < 1 \/ q > 99
              THEN /\ items' = items
                   /\ activePromoCode' = activePromoCode
                   /\ storage' = storage
                   /\ effect' = "none"
              ELSE /\ Len(items') = Len(items)
                   /\ \A i \in DOMAIN items :
                         /\ items'[i].id = items[i].id
                         /\ items'[i].price = items[i].price
                         /\ items'[i].quantity =
                               IF items[i].id = id THEN q ELSE items[i].quantity
                   /\ activePromoCode' = activePromoCode]_vars

\* C3 witness: updateQuantity has just set the second of two line items to 1
\* while a promo code is active.
UpdateQuantityHappened ==
    /\ effect = "updateQuantity"
    /\ Len(items) = 2
    /\ items[1].quantity = 98
    /\ items[2].quantity = 1
    /\ activePromoCode # <<>>

\* C4: addItem rejects the item exactly when its price is not a present,
\* finite, non-negative number: then items, promo code and persisted entry are
\* unchanged and no write is scheduled; otherwise the item is added or merged.
AddItemRejectsExactlyInvalidPrices ==
    [][\A newItem \in AddInputs :
          AddItem(newItem) =>
              IF ValidPrice(newItem.price)
              THEN /\ Cardinality(ItemsWithId(items', newItem.id)) >= 1
                   /\ effect' = "addItem"
              ELSE /\ items' = items
                   /\ activePromoCode' = activePromoCode
                   /\ storage' = storage
                   /\ effect' = "none"]_vars

\* C5: once clearCart has run and the effect it triggers has run, the items
\* are empty, no promo code is active and the persisted entry is absent.
ClearCartRemovesEntry ==
    [][(effect = "clearCart" /\ PersistEffect) =>
          /\ items' = <<>>
          /\ activePromoCode' = <<>>
          /\ storage' = <<>>]_vars

\* C6: at initialization with a well-formed envelope, the restored items are
\* the envelope's items when the time is strictly before expiryDate, and the
\* cart is empty when the time is expiryDate or later.
RestoreHonoursExpiry ==
    (effect = "mount" /\ storage # <<>> /\ WellFormedEnvelope(storage[1])) =>
        items = IF now < storage[1].expiryDate.v THEN storage[1].items ELSE <<>>

\* C6 witness: a two-item envelope that has not expired was restored as it is.
RestoredTwoItems ==
    /\ effect = "mount"
    /\ storage # <<>>
    /\ WellFormedEnvelope(storage[1])
    /\ now < storage[1].expiryDate.v
    /\ Len(items) = 2
    /\ items = storage[1].items

\* C7: whatever the persisted entry holds at initialization, no error is
\* propagated, and every content but a valid unexpired envelope gives an
\* empty cart.
InitializationNeverFails ==
    /\ ~crashed
    /\ (effect = "mount"
          /\ ~(/\ storage # <<>>
               /\ WellFormedEnvelope(storage[1])
               /\ now < storage[1].expiryDate.v))
       => items = <<>>

\* C8: after an addItem, updateQuantity or removeItem call that changed the
\* items, the persisted envelope is rewritten: its items are the new items
\* and its expiryDate is the time of the write plus 7 days.
EnvelopeRewritten ==
    [][(effect \in {"addItem", "updateQuantity", "removeItem"} /\ PersistEffect) =>
          /\ storage' # <<>>
          /\ storage'[1].kind = "object"
          /\ storage'[1].hasItems
          /\ storage'[1].items = items'
          /\ storage'[1].expiryDate = Num(now + 7)]_vars

\* The same rewrite, for carts whose prices are all finite numbers (what
\* JSON.stringify writes for an infinite price is null).
EnvelopeRewrittenFinitePrices ==
    [][(effect \in {"addItem", "updateQuantity", "removeItem"} /\ PersistEffect
            /\ FinitePrices(items)) =>
          /\ storage' # <<>>
          /\ WellFormedEnvelope(storage'[1])
          /\ storage'[1].items = items'
          /\ storage'[1].expiryDate = Num(now + 7)]_vars

\* C9: in every state subtotal is the sum of price * quantity over exactly the
\* current line items and totalItems is the sum of their quantities.
TotalsAreFresh ==
    ~crashed =>
        /\ subtotal = SumOfProducts(items)
        /\ totalItems = SumOfQuantities(items)

\* The totals as the data model defines them: a product that is NaN is left
\* out of subtotal.
TotalsSkipNaN ==
    ~crashed =>
        /\ subtotal = SumOfNumberProducts(items)
        /\ totalItems = SumOfQuantities(items)

\* the total the claim states, in units of 1 / 100 of a cent
ExpectedTotal ==
    IF activePromoCode = <<>>
    THEN Mul(subtotal, Num(100))
    ELSE Mul(subtotal, Num(100 - activePromoCode[1].discount))

\* C10: total is subtotal without a promo code and subtotal * (1 - discount /
\* 100) with one; SAVE20 on a subtotal of 100.00 gives 80.00, and with the
\* promo code removed again the total of that subtotal is 100.00.
TotalAppliesDiscount ==
    ~crashed =>
        /\ total = ExpectedTotal
        /\ (activePromoCode # <<>> /\ activePromoCode[1].code = SAVE20
                /\ subtotal = Num(10000))
            => total = Num(800000)
        /\ (activePromoCode = <<>> /\ subtotal = Num(10000))
            => total = Num(1000000)

\* C10 witness: SAVE20 is active on a subtotal of 100.00 and total is 80.00.
Save20OnHundred ==
    /\ activePromoCode # <<>>
    /\ activePromoCode[1].code = SAVE20
    /\ activePromoCode[1].discount = 20
    /\ subtotal = Num(10000)
    /\ total = Num(800000)

\* two characters that are equal or the two cases of one letter
SameLetter(c, d) ==
    \/ c = d
    \/ \E i \in DOMAIN UpperChars : {c, d} = {UpperChars[i], LowerChars[i]}

\* two strings that differ in the case of their letters at most
CaseVariants(a, b) ==
    /\ Len(a) = Len(b)
    /\ \A i \in DOMAIN a : SameLetter(a[i], b[i])

\* the typed codes that are a case variant of an entry of the allow-list,
\* each with the index of that entry
AllowListedInputs ==
    {ci \in PromoInputs \X DOMAIN VALID_PROMO_CODES :
        CaseVariants(ci[1], VALID_PROMO_CODES[ci[2]].code)}

\* C11: in every state where the cart accepts calls, applyPromoCode with any
\* upper/lower-case variant of WELCOME10 or SAVE20 makes that entry of the
\* allow-list (discount 10, discount 20) the active promo code, whatever was
\* active before.
ApplyPromoCodeIgnoresCase ==
    Ready =>
        \A ci \in AllowListedInputs :
            applyPromoCodeResult(ci[1], activePromoCode) = <<VALID_PROMO_CODES[ci[2]]>>

\* C11 witness: WELCOME10 with discount 10 is the active promo code, and
\* applyPromoCode("save20") in this state replaces it by SAVE20.
Welcome10Active ==
    /\ Ready
    /\ activePromoCode = <<[code |-> WELCOME10, discount |-> 10]>>
    /\ Cardinality(AllowListedInputs) = 4
    /\ total = Mul(subtotal, Num(90))
    /\ items # <<>>

\* no promo code, or one entry of the allow-list
PromoStates == {<<>>} \cup {<<VALID_PROMO_CODES[i]>> : i \in DOMAIN VALID_PROMO_CODES}

\* C12: the active promo code is always none or an entry of the allow-list;
\* it becomes a (different) code only by applyPromoCode with an allow-listed
\* code, it becomes none only by removePromoCode or clearCart, and no step of
\* addItem, updateQuantity, removeItem or of applyPromoCode with a code that
\* is not on the allow-list changes it.
PromoStateMachine ==
    [][/\ activePromoCode' \in PromoStates
       /\ (activePromoCode' # activePromoCode /\ activePromoCode' # <<>>) =>
              \E ci \in AllowListedInputs : ApplyPromoCode(ci[1])
       /\ (activePromoCode' # activePromoCode /\ activePromoCode' = <<>>) =>
              RemovePromoCode \/ ClearCart
       /\ activePromoCode' # activePromoCode =>
              /\ ~ \E newItem \in AddInputs : AddItem(newItem)
              /\ ~ \E id \in Ids, quantity \in UpdateQuantities :
                        UpdateQuantity(id, quantity)
              /\ ~ \E id \in Ids : RemoveItem(id)
              /\ ~ \E code \in PromoInputs :
                        /\ \A ci \in AllowListedInputs : ci[1] # code
                        /\ ApplyPromoCode(code)]_vars

\* C12 witness: SAVE20 is still active right after a removeItem.
PromoSurvivesRemoveItem ==
    /\ effect = "removeItem"
    /\ activePromoCode = <<[code |-> SAVE20, discount |-> 20]>>
    /\ items # <<>>

\* the line items of its other than the one with this id, in their order
WithoutId(its, id) ==
    LET Other(item) == item.id # id
    IN  SelectSeq(its, Other)

\* C13: removeItem(id) leaves exactly the line items with another id, each
\* with its price and quantity and in the same relative order; when no line
\* item has the id the item sequence is unchanged; the promo code is
\* unchanged either way.
RemoveItemExact ==
    [][\A id \in Ids :
          RemoveItem(id) =>
              /\ items' = WithoutId(items, id)
              /\ ~ HasId(items, id) => items' = items
              /\ HasId(items, id) => Len(items') = Len(items) - 1
              /\ activePromoCode' = activePromoCode]_vars

\* C13 witness: removeItem("1") took the second of two line items and left
\* the first, with a promo code active.
RemovedSecondOfTwo ==
    /\ effect = "removeItem"
    /\ Len(items) = 1
    /\ items[1] = CartItem("2", Num(10000), 98)
    /\ requested["1"] = 0
    /\ storage # <<>>
    /\ WellFormedEnvelope(storage[1])
    /\ Len(storage[1].items) = 2
    /\ activePromoCode # <<>>

\* the discount in percent the promotional strip of the header promises
AdvertisedDiscount == 20

\* C14: in every state where the cart accepts calls, applyPromoCode with the
\* code the header advertises, WELCOME20, makes a promo code with discount 20
\* active, so that total becomes subtotal * 0.80.
AdvertisedCodeAccepted ==
    Ready =>
        LET promo == applyPromoCodeResult(WELCOME20, activePromoCode)
        IN  /\ promo # <<>>
            /\ CaseVariants(promo[1].code, WELCOME20)
            /\ promo[1].discount = AdvertisedDiscount
            /\ totalOf(items, promo) = Mul(subtotal, Num(TotalScale - AdvertisedDiscount))

\* C14: a cart that accepts calls, holds an item with a price and has no
\* promo code active, in which applyPromoCode("WELCOME20") finds no code.
AdvertisedCodeTried ==
    /\ Ready
    /\ activePromoCode = <<>>
    /\ subtotal = Num(10000)
    /\ applyPromoCodeResult(WELCOME20, activePromoCode) = <<>>

\* the ids of the line items, in their order
IdsOf(its) == [i \in DOMAIN its |-> its[i].id]

\* the sequence of ids without this id
IdsWithout(ids, id) ==
    LET Other(x) == x # id
    IN  SelectSeq(ids, Other)

\* C15: started from an empty cart, no two line items ever share an id, and
\* the order is that of first insertion: every step that changes the item
\* sequence leaves the ids distinct; if it is an addItem of an id that is not
\* present and passes the price guard it puts the new id at the end behind
\* the unchanged items, if it is an addItem of a present id or an
\* updateQuantity it keeps every id at its position, and if it is a
\* removeItem it keeps the relative order of the remaining ids.
InsertionOrderKept ==
    [][\/ items' = items
       \/ /\ \A i, j \in DOMAIN items' : i # j => items'[i].id # items'[j].id
          /\ \A newItem \in AddInputs :
                IF HasId(items, newItem.id) \/ addItemRejects(newItem)
                THEN IdsOf(items') = IdsOf(items) \/ ~ AddItem(newItem)
                ELSE \/ /\ IdsOf(items') = Append(IdsOf(items), newItem.id)
                        /\ SubSeq(items', 1, Len(items)) = items
                     \/ ~ AddItem(newItem)
          /\ \A id \in Ids, quantity \in UpdateQuantities :
                IdsOf(items') = IdsOf(items) \/ ~ UpdateQuantity(id, quantity)
          /\ \A id \in Ids :
                \/ IdsOf(items') = IdsWithout(IdsOf(items), id)
                \/ ~ RemoveItem(id)]_vars

\* C15 witness: id "2" was added to the empty cart first and id "1" after it.
SecondInsertedLast ==
    /\ effect = "addItem"
    /\ IdsOf(items) = <<"2", "1">>
    /\ storage # <<>>
    /\ storage[1].items # <<>>
    /\ IdsOf(storage[1].items) = <<"2">>

\* text contains tag, the case of the letters set aside
ContainsIgnoringCase(text, tag) ==
    \E i \in 1..(Len(text) - Len(tag) + 1) :
        CaseVariants(SubSeq(text, i, i + Len(tag) - 1), tag)

\* per filter tag, the products that it selects: all of them for "all",
\* otherwise those with the tag in a feature or in the specification-features
\* text
Selected ==
    [tag \in FilterOptions |->
        {PRODUCTS[k] : k \in {n \in DOMAIN PRODUCTS :
            \/ tag = ALL
            \/ \E f \in DOMAIN PRODUCTS[n].features :
                  ContainsIgnoringCase(PRODUCTS[n].features[f], tag)
            \/ ContainsIgnoringCase(PRODUCTS[n].specifications.features, tag)}}]

\* the products of the catalog that the filter tag selects
MatchingProducts(catalog, tag) ==
    {catalog[i] : i \in DOMAIN catalog} \cap Selected[tag]

\* the entries of catalog that are in the set, in catalog order
InCatalogOrder(catalog, set) ==
    LET Member(product) == product \in set
    IN  SelectSeq(catalog, Member)

\* C16: after every change of the filter or the sort, the displayed sequence
\* holds exactly the catalog products that match the filter (all of them for
\* "all", otherwise those with the tag in a feature or in the
\* specification-features text, case set aside), each once; it is ordered by
\* price ascending for "price-low", by price descending for "price-high", by
\* id descending for "newest" and in catalog order for "featured"; filtering
\* and sorting the displayed sequence again returns it unchanged; and the
\* catalog is as it was.
ShopDisplayIsPure ==
    [][\A shown \in {sortedProductsOf(products', filterBy', sortBy')} :
       \A matching \in {MatchingProducts(products', filterBy')} :
           /\ {shown[i] : i \in DOMAIN shown} = matching
           /\ Len(shown) = Cardinality(matching)
           /\ sortBy' = "price-low" =>
                 \A i, j \in DOMAIN shown : i < j => shown[i].price <= shown[j].price
           /\ sortBy' = "price-high" =>
                 \A i, j \in DOMAIN shown : i < j => shown[i].price >= shown[j].price
           /\ sortBy' = "newest" =>
                 \A i, j \in DOMAIN shown : i < j => shown[i].id >= shown[j].id
           /\ sortBy' = "featured" => shown = InCatalogOrder(products', matching)
           /\ sortedProductsOf(shown, filterBy', sortBy') = shown
           /\ products' = products]_vars

\* C16 witness: the shipped catalog filtered by "maxi" and sorted by
\* "newest" shows the Overnight product before the Ultra-Thin one, and not
\* the Maxi Pads.
MaxiNewestShown ==
    /\ products = PRODUCTS
    /\ filterBy = MAXI
    /\ sortBy = "newest"
    /\ sortedProducts = <<Overnight425mm, UltraThin290mm>>

\* a step of an addItem that passes the price guard
AcceptedAddItem ==
    \E newItem \in AddInputs : ~ addItemRejects(newItem) /\ AddItem(newItem)

\* C17: every addItem that passes the price guard sets the animating flag,
\* a rejected addItem leaves the flag and the timers alone, a timer callback
\* changes neither the items nor the promo code nor the persisted entry, and
\* once no further addItem is accepted the flag is eventually false for good.
AnimationSettles ==
    /\ [][/\ \A newItem \in AddInputs :
               AddItem(newItem) =>
                   IF addItemRejects(newItem)
                   THEN UNCHANGED <<isCartAnimating, timers>>
                   ELSE isCartAnimating'
          /\ ResetAnimation => UNCHANGED <<items, activePromoCode, storage>>]_vars
    /\ (<>[][~ AcceptedAddItem]_vars) => <>[](~ isCartAnimating)

\* C17 witness: two timers are pending and the first of them has already
\* reset the flag that the second addItem had set.
FlagResetEarly ==
    /\ Ready
    /\ timers = 1
    /\ ~ isCartAnimating
    /\ Len(items) = 2

\* C18: every step into a state where all effects have run leaves a persisted
\* entry that is an envelope of exactly two parts, the items and the
\* expiryDate, with no promo code in it, whose items are the items in memory;
\* and the effect that follows initialization writes an expiryDate of the
\* current time plus 7 days, so that an entry that was absent, expired or
\* unparseable is replaced by an envelope with an empty item list.
PersistedMirrorsItems ==
    [][(~ crashed' /\ effect' = "none") =>
          /\ storage' # <<>>
          /\ storage'[1].kind = "object"
          /\ storage'[1].hasItems
          /\ storage'[1].items = items'
          /\ effect = "mount" =>
                /\ storage'[1].expiryDate = Num(now + CART_EXPIRY_DAYS)
                /\ (storage = <<>> \/ ~ WellFormedEnvelope(storage[1])
                        \/ ~ notExpired(now, storage[1].expiryDate))
                    => storage'[1].items = <<>>]_vars

\* The same, for carts whose prices are all finite numbers (what
\* JSON.stringify writes for an infinite price is null).
PersistedMirrorsFinitePrices ==
    [][(~ crashed' /\ effect' = "none" /\ FinitePrices(items')) =>
          /\ storage' # <<>>
          /\ WellFormedEnvelope(storage'[1])
          /\ storage'[1].items = items'
          /\ effect = "mount" =>
                /\ storage'[1].expiryDate = Num(now + CART_EXPIRY_DAYS)
                /\ (storage = <<>> \/ ~ WellFormedEnvelope(storage[1])
                        \/ ~ notExpired(now, storage[1].expiryDate))
                    => storage'[1].items = <<>>]_vars

\* C18: a state where all effects have run and the cart holds a line item
\* with an infinite price.
InfinitePricePersisted ==
    /\ Ready
    /\ items # <<>>
    /\ items[1].price = Infinity
    /\ storage # <<>>
    /\ storage[1].items # items

====
